---- MODULE Spec2Model ----
(***************************************************************************)
(* udc2mongo: the Unicode Character Database import pipeline.              *)
(*                                                                         *)
(* model/parser.go    flattening, validation, normalization                *)
(* database/mongo.go  the destructive-replace persistence protocol         *)
(* main.go            one sequential run: fetch, parse, process, connect,  *)
(*                    rebuild indexes, save, statistics                    *)
(*                                                                         *)
(* A string of the program is a TLA+ string where the code only compares   *)
(* it, and a sequence of one-character strings where the code looks inside *)
(* it (strings.TrimSpace, the case-insensitive search of mongo.go).        *)
(***************************************************************************)
EXTENDS Integers, Sequences, FiniteSets, TLC

VARIABLES
    profile,     \* which inputs the environment offers, fixed per behaviour
    run,         \* number of the current invocation of main
    pc,          \* position of main (and of the handler it is in)
    err,         \* the error main stopped on, or Nil
    content,     \* main.go:40 content, the fetched artifact
    ucd,         \* main.go:49 ucd, the decoded tree
    codePoints,  \* main.go:57 codePoints
    blocks,      \* main.go:57 blocks
    documents,   \* mongo.go:98 / mongo.go:143 documents
    i,           \* mongo.go:109 i, the start of the current batch
    stats,       \* mongo.go:278 stats
    clock,       \* number of time.Now() calls of the current run
    exists,      \* the store: which collections exist
    db,          \* the store: the documents of each collection, in insertion order
    indexes,     \* the store: the secondary indexes of each collection
    prior,       \* history: the store when the current run started
    trace,       \* history: the store operations of the current run, in order
    ucdCleared,  \* history: SaveUCD has dropped the metadata collection at least once
    lastRun,     \* history: outcome of the run before the current one
    input,       \* pure-function harness: the repertoire under test
    rec,         \* pure-function harness: the record under test
    result       \* pure-function harness: what the function returned

vars == <<profile, run, pc, err, content, ucd, codePoints, blocks, documents, i, stats, clock,
          exists, db, indexes, prior, trace, ucdCleared, lastRun, input, rec, result>>

localVars == <<content, ucd, codePoints, blocks, documents, i, stats, clock>>
storeVars == <<exists, db, indexes>>
harnessVars == <<input, rec, result>>

(***************************************************************************)
(* Values                                                                  *)
(***************************************************************************)
\* nil, of any pointer, interface or error type
Nil == [nil |-> TRUE]

NilObjectID == <<0, "", 0>>
ZeroTime == <<0, 0>>

\* unicode.IsSpace, restricted to the characters the inputs use
WhiteSpace == {" ", "\t", "\n"}

Min(S) == CHOOSE x \in S : \A y \in S : x <= y
Max(S) == CHOOSE x \in S : \A y \in S : x >= y

TrimSpaceOnce(s) ==
    LET a == IF Len(s) > 0 /\ s[1] \in WhiteSpace THEN Tail(s) ELSE s
    IN  IF Len(a) > 0 /\ a[Len(a)] \in WhiteSpace THEN SubSeq(a, 1, Len(a) - 1) ELSE a

\* strings.TrimSpace
TrimSpace(s) ==
    LET keep == {k \in 1..Len(s) : s[k] \notin WhiteSpace}
    IN  IF keep = {} THEN <<>> ELSE SubSeq(s, Min(keep), Max(keep))

\* The zero value of model.CodePoint, restricted to the fields the pipeline reads or writes.
ZeroCodePoint ==
    [ID |-> NilObjectID, CP |-> "", FirstCP |-> "", LastCP |-> "",
     Name |-> <<>>, Name1 |-> <<>>, Block |-> <<>>, Script |-> <<>>,
     BidiMirroringGlyph |-> "", DecompositionMapping |-> "",
     SimpleUppercase |-> "", SimpleLowercase |-> "", SimpleTitlecase |-> "",
     UppercaseMapping |-> "", LowercaseMapping |-> "", TitlecaseMapping |-> "",
     SimpleCaseFolding |-> "", CaseFolding |-> "",
     Deprecated |-> FALSE, Noncharacter |-> FALSE,
     CreatedAt |-> ZeroTime, UpdatedAt |-> ZeroTime]

\* The zero value of model.Block.
ZeroBlock ==
    [ID |-> NilObjectID, FirstCP |-> "", LastCP |-> "", Name |-> "",
     CreatedAt |-> ZeroTime, UpdatedAt |-> ZeroTime]

Block(first, last, name) == [ZeroBlock EXCEPT !.FirstCP = first, !.LastCP = last, !.Name = name]

\* The zero value of model.Repertoire.
ZeroRepertoire == [CodePoints |-> <<>>, Reserved |-> <<>>, Noncharacter |-> <<>>, Surrogate |-> <<>>]

\* The zero value of model.UCD.
ZeroUCD ==
    [Xmlns |-> "", Description |-> "", Repertoire |-> Nil, Blocks |-> Nil,
     CreatedAt |-> ZeroTime, UpdatedAt |-> ZeroTime, Version |-> ""]

(***************************************************************************)
(* model/parser.go                                                         *)
(***************************************************************************)
\* The range loops of getCodePointsFromRepertoire work on a copy of each element.
AfterFlattening(repertoire) == repertoire

MarkReserved(cp) == [cp EXCEPT !.Deprecated = TRUE]
MarkNoncharacter(cp) == [cp EXCEPT !.Noncharacter = TRUE]

getCodePointsFromRepertoireSurrogateThird(repertoire) ==
    IF repertoire = Nil THEN <<>>
    ELSE repertoire.CodePoints
         \o [k \in 1..Len(repertoire.Reserved) |-> MarkReserved(repertoire.Reserved[k])]
         \o repertoire.Surrogate
         \o [k \in 1..Len(repertoire.Noncharacter) |-> MarkNoncharacter(repertoire.Noncharacter[k])]

getCodePointsFromRepertoire(repertoire) ==
    IF repertoire = Nil THEN <<>>
    ELSE repertoire.CodePoints
         \o [k \in 1..Len(repertoire.Reserved) |-> MarkReserved(repertoire.Reserved[k])]
         \o [k \in 1..Len(repertoire.Noncharacter) |-> MarkNoncharacter(repertoire.Noncharacter[k])]
         \o repertoire.Surrogate

ExtractAllCodePoints(u) ==
    IF u.Repertoire # Nil THEN getCodePointsFromRepertoire(u.Repertoire) ELSE <<>>

ExtractBlocks(u) ==
    IF u.Blocks = Nil THEN <<>> ELSE u.Blocks.Blocks

\* fmt.Errorf("<msg>")
NewError(msg) == [msg |-> msg]

ErrMissingIdentity == NewError("code point must have either cp or first-cp")
ErrIncompleteRange == NewError("code point with first-cp must also have last-cp")

ValidateCodePointNoRangeCheck(cp) ==
    IF cp.CP = "" /\ cp.FirstCP = "" THEN ErrMissingIdentity ELSE Nil

ValidateCodePoint(cp) ==
    IF cp.CP = "" /\ cp.FirstCP = "" THEN ErrMissingIdentity
    ELSE IF cp.FirstCP # "" /\ cp.LastCP = "" THEN ErrIncompleteRange
    ELSE Nil

Unhash(v) == IF v = "#" THEN "" ELSE v

NormalizeCodePointEightFields(cp) ==
    [cp EXCEPT !.Name = TrimSpace(cp.Name),
               !.Name1 = TrimSpace(cp.Name1),
               !.Block = TrimSpace(cp.Block),
               !.Script = TrimSpace(cp.Script),
               !.BidiMirroringGlyph = Unhash(cp.BidiMirroringGlyph),
               !.DecompositionMapping = Unhash(cp.DecompositionMapping),
               !.SimpleUppercase = Unhash(cp.SimpleUppercase),
               !.SimpleLowercase = Unhash(cp.SimpleLowercase),
               !.SimpleTitlecase = Unhash(cp.SimpleTitlecase),
               !.UppercaseMapping = Unhash(cp.UppercaseMapping),
               !.LowercaseMapping = Unhash(cp.LowercaseMapping),
               !.TitlecaseMapping = Unhash(cp.TitlecaseMapping)]

NormalizeCodePoint(cp) ==
    [cp EXCEPT !.Name = TrimSpace(cp.Name),
               !.Name1 = TrimSpace(cp.Name1),
               !.Block = TrimSpace(cp.Block),
               !.Script = TrimSpace(cp.Script),
               !.BidiMirroringGlyph = Unhash(cp.BidiMirroringGlyph),
               !.DecompositionMapping = Unhash(cp.DecompositionMapping),
               !.SimpleUppercase = Unhash(cp.SimpleUppercase),
               !.SimpleLowercase = Unhash(cp.SimpleLowercase),
               !.SimpleTitlecase = Unhash(cp.SimpleTitlecase),
               !.UppercaseMapping = Unhash(cp.UppercaseMapping),
               !.LowercaseMapping = Unhash(cp.LowercaseMapping),
               !.TitlecaseMapping = Unhash(cp.TitlecaseMapping),
               !.SimpleCaseFolding = Unhash(cp.SimpleCaseFolding),
               !.CaseFolding = Unhash(cp.CaseFolding)]

IsValid(cp) == ValidateCodePoint(cp) = Nil

ProcessUCDForMongoDBStopsAtRejected(u) ==
    LET all == ExtractAllCodePoints(u)
        bad == {k \in 1..Len(all) : ~IsValid(all[k])}
        valid == IF bad = {} THEN all ELSE SubSeq(all, 1, Min(bad) - 1)
    IN  [codePoints |-> [k \in 1..Len(valid) |-> NormalizeCodePoint(valid[k])],
         blocks |-> ExtractBlocks(u),
         err |-> IF bad = {} THEN Nil ELSE ValidateCodePoint(all[Min(bad)])]

\* Returns (validCodePoints, blocks, err); err is always nil.
ProcessUCDForMongoDB(u) ==
    LET all == ExtractAllCodePoints(u)
        valid == SelectSeq(all, IsValid)
    IN  [codePoints |-> [k \in 1..Len(valid) |-> NormalizeCodePoint(valid[k])],
         blocks |-> ExtractBlocks(u),
         err |-> Nil]

(***************************************************************************)
(* database/mongo.go: errors                                               *)
(***************************************************************************)
\* fmt.Errorf("<msg>: %w", cause)
Errorf(msg, cause) == [msg |-> msg, cause |-> cause]

BatchErrorfBatchNumber(from, to, cause) ==
    [msg |-> "failed to insert code points batch", i |-> from \div 1000, end |-> to \div 1000,
     cause |-> cause]

\* fmt.Errorf("failed to insert code points batch %d-%d: %w", i, end, err)
BatchErrorf(from, to, cause) ==
    [msg |-> "failed to insert code points batch", i |-> from, end |-> to, cause |-> cause]

\* err.Error() of the errors the driver returns, as character sequences.
MsgDeadline == <<"c", "o", "n", "t", "e", "x", "t", " ", "d", "e", "a", "d", "l", "i", "n", "e", " ", "e", "x", "c", "e", "e", "d", "e", "d">>
MsgNsNotFound == <<"n", "s", " ", "n", "o", "t", " ", "f", "o", "u", "n", "d">>
MsgNamespaceNotFound == <<"(", "N", "a", "m", "e", "s", "p", "a", "c", "e", "N", "o", "t", "F", "o", "u", "n", "d", ")", " ", "n", "s", " ", "d", "o", "e", "s", " ", "n", "o", "t", " ", "e", "x", "i", "s", "t">>
MsgUnauthorized == <<"(", "U", "n", "a", "u", "t", "h", "o", "r", "i", "z", "e", "d", ")", " ", "n", "o", "t", " ", "a", "u", "t", "h", "o", "r", "i", "z", "e", "d">>

UpperCase == <<"A", "B", "C", "D", "E", "F", "G", "H", "I", "J", "K", "L", "M", "N", "O", "P", "Q", "R", "S", "T", "U", "V", "W", "X", "Y", "Z">>
LowerCase == <<"a", "b", "c", "d", "e", "f", "g", "h", "i", "j", "k", "l", "m", "n", "o", "p", "q", "r", "s", "t", "u", "v", "w", "x", "y", "z">>

\* c + 32 for 'A' <= c <= 'Z'
ToLower(c) ==
    IF \E k \in 1..Len(UpperCase) : UpperCase[k] = c
    THEN LowerCase[CHOOSE k \in 1..Len(UpperCase) : UpperCase[k] = c]
    ELSE c

SubstrNamespaceNotFound == <<"N", "a", "m", "e", "s", "p", "a", "c", "e", "N", "o", "t", "F", "o", "u", "n", "d">>
SubstrNsNotFound == <<"n", "s", " ", "n", "o", "t", " ", "f", "o", "u", "n", "d">>

\* The first position (from 0) where substr occurs in s ignoring ASCII case, or -1.
indexIgnoreCase(s, substr) ==
    IF Len(substr) = 0 THEN 0
    ELSE IF Len(s) < Len(substr) THEN -1
    ELSE LET hits == {p \in 0..(Len(s) - Len(substr)) :
                         \A j \in 1..Len(substr) : ToLower(s[p + j]) = ToLower(substr[j])}
         IN  IF hits = {} THEN -1 ELSE Min(hits)

contains(s, substr) ==
    Len(s) >= Len(substr)
    /\ (s = substr \/ (Len(s) > Len(substr) /\ indexIgnoreCase(s, substr) >= 0))

isNamespaceNotFoundErrorExactMessage(e) ==
    IF e = Nil THEN FALSE ELSE e.text = SubstrNsNotFound

isNamespaceNotFoundError(e) ==
    IF e = Nil THEN FALSE
    ELSE contains(e.text, SubstrNamespaceNotFound) \/ contains(e.text, SubstrNsNotFound)

(***************************************************************************)
(* The inputs of a run                                                     *)
(***************************************************************************)
\* mongo.go:108 batchSize
batchSize == 1000
\* mongo.go:304 {"$limit": 10}
TopLimit == 10

MaxRuns == 2       \* invocations of main in one behaviour
MaxPartial == 1    \* documents an InsertMany that fails may have written before failing
BigExtra == 1      \* records of the largest source beyond two full batches

Chars4(a, b, c, d) == <<a, b, c, d>>

CharA == [ZeroCodePoint EXCEPT !.CP = "0041", !.Name = <<"A">>, !.Block = <<"A", "S", "C">>,
                               !.Script = Chars4("L", "a", "t", "n"), !.SimpleLowercase = "0061",
                               !.SimpleUppercase = "#"]
CharPadded == [ZeroCodePoint EXCEPT !.CP = "0042", !.Name = <<" ", "B", " ">>,
                               !.Script = <<"L", "a", "t", "n", " ">>, !.CaseFolding = "#"]
CharBoth == [ZeroCodePoint EXCEPT !.CP = "4E00", !.FirstCP = "4E00", !.LastCP = "9FFF",
                               !.Script = Chars4("H", "a", "n", "i")]
RangeReserved == [ZeroCodePoint EXCEPT !.FirstCP = "0378", !.LastCP = "0379"]
RangeNonchar == [ZeroCodePoint EXCEPT !.FirstCP = "FDD0", !.LastCP = "FDEF"]
RangeSurrogate == [ZeroCodePoint EXCEPT !.FirstCP = "D800", !.LastCP = "DB7F"]
RangeIncomplete == [ZeroCodePoint EXCEPT !.FirstCP = "0380"]
NoIdentity == [ZeroCodePoint EXCEPT !.Name = <<"X">>]

\* The bytes main fetches, named by what they decode to.
Artifact(kind, n) == [kind |-> kind, n |-> n]

SmallArtifacts ==
    {Artifact("empty", 0), Artifact("scenario", 0), Artifact("mixed", 0),
     Artifact("rejected", 0), Artifact("malformed", 0)}

BigArtifacts ==
    {Artifact("big", n) : n \in {batchSize - 1, batchSize, batchSize + 1, 2 * batchSize + BigExtra}}

\* A source of twelve scripts: more than the script ranking lists, with equal counts inside
\* the ranking and across its end.
ScriptLetters == <<"a", "b", "c", "d", "e", "f", "g", "h", "i", "j", "k", "l">>
ScriptCounts == <<9, 8, 7, 6, 5, 4, 3, 3, 2, 1, 1, 1>>

ScriptRecords ==
    LET pairs == {<<j, c>> : j \in 1..Len(ScriptCounts), c \in 1..Max({ScriptCounts[j] : j \in 1..Len(ScriptCounts)})}
        used == {p \in pairs : p[2] <= ScriptCounts[p[1]]}
        At(p) == Cardinality({q \in used : q[1] < p[1] \/ (q[1] = p[1] /\ q[2] <= p[2])})
    IN  [k \in 1..Cardinality(used) |->
            LET p == CHOOSE q \in used : At(q) = k
            IN  [ZeroCodePoint EXCEPT !.CP = ToString(k), !.Script = <<"S", ScriptLetters[p[1]], " ">>]]

StatsArtifacts == {Artifact("scripts", 0), Artifact("scenario", 0), Artifact("empty", 0)}

Artifacts(p) ==
    CASE p = "big" -> BigArtifacts \cup {Artifact("empty", 0)}
      [] p = "stats" -> StatsArtifacts
      [] OTHER -> SmallArtifacts

RunsOf(p) == IF p = "small" THEN MaxRuns ELSE 1

\* xml.Unmarshal of the artifact into model.UCD (the artifact is well formed).
Decode(c) ==
    LET base == [ZeroUCD EXCEPT !.Xmlns = "http://www.unicode.org/ns/2003/ucd/1.0",
                                !.Description = "Unicode 16.0.0"]
    IN  CASE c.kind = "empty" -> base
          [] c.kind = "scenario" ->
                [base EXCEPT !.Repertoire = [ZeroRepertoire EXCEPT !.CodePoints = <<CharA>>,
                                                                   !.Reserved = <<RangeReserved>>],
                             !.Blocks = [Blocks |-> <<Block("0000", "007F", "ASCII")>>]]
          [] c.kind = "mixed" ->
                [base EXCEPT !.Repertoire = [CodePoints |-> <<CharPadded, RangeIncomplete, CharBoth>>,
                                             Reserved |-> <<>>,
                                             Noncharacter |-> <<RangeNonchar>>,
                                             Surrogate |-> <<RangeSurrogate>>],
                             !.Blocks = [Blocks |-> <<Block("0000", "007F", "ASCII"),
                                                      Block("0080", "00FF", "Latin-1")>>]]
          [] c.kind = "rejected" ->
                [base EXCEPT !.Repertoire = [ZeroRepertoire EXCEPT !.CodePoints = <<NoIdentity>>,
                                                                   !.Reserved = <<RangeIncomplete>>],
                             !.Blocks = [Blocks |-> <<>>]]
          [] c.kind = "scripts" ->
                [base EXCEPT !.Repertoire = [ZeroRepertoire EXCEPT !.CodePoints = ScriptRecords],
                             !.Blocks = [Blocks |-> <<Block("0000", "007F", "ASCII")>>]]
          [] c.kind = "big" ->
                [base EXCEPT !.Repertoire =
                                 [ZeroRepertoire EXCEPT !.CodePoints =
                                     [k \in 1..c.n |-> [ZeroCodePoint EXCEPT !.CP = ToString(k)]]],
                             !.Blocks = [Blocks |-> <<Block("0000", "FFFF", "BMP")>>]]

(***************************************************************************)
(* The store                                                               *)
(***************************************************************************)
Collections == {"ucd", "code_points", "blocks"}

Index(keys, sparse, unique) == [keys |-> keys, sparse |-> sparse, unique |-> unique]

codePointIndexesCpNotSparse ==
    {Index(<<"cp">>, FALSE, FALSE), Index(<<"name">>, FALSE, FALSE), Index(<<"block">>, FALSE, FALSE),
     Index(<<"general_category">>, FALSE, FALSE), Index(<<"script">>, FALSE, FALSE),
     Index(<<"age">>, FALSE, FALSE), Index(<<"first_cp", "last_cp">>, FALSE, FALSE)}

\* mongo.go:184-210
codePointIndexes ==
    {Index(<<"cp">>, TRUE, FALSE), Index(<<"name">>, FALSE, FALSE), Index(<<"block">>, FALSE, FALSE),
     Index(<<"general_category">>, FALSE, FALSE), Index(<<"script">>, FALSE, FALSE),
     Index(<<"age">>, FALSE, FALSE), Index(<<"first_cp", "last_cp">>, FALSE, FALSE)}

\* mongo.go:217-228
blockIndexes ==
    {Index(<<"name">>, FALSE, TRUE), Index(<<"first_cp", "last_cp">>, FALSE, FALSE)}

\* A database nothing was ever written to.
EmptyStore ==
    [exists |-> [c \in Collections |-> FALSE],
     db |-> [c \in Collections |-> <<>>],
     indexes |-> [c \in Collections |-> {}]]

\* A database that other writers filled before the first run.
LegacyStore ==
    [exists |-> [c \in Collections |-> TRUE],
     db |-> [c \in Collections |->
               CASE c = "ucd" ->
                      <<[ID |-> <<0, "ucd", 1>>, Description |-> "Unicode 15.0.0", Version |-> "15.0.0",
                         CreatedAt |-> ZeroTime, UpdatedAt |-> ZeroTime],
                        [ID |-> <<0, "ucd", 2>>, Description |-> "Unicode 15.1.0", Version |-> "15.1.0",
                         CreatedAt |-> ZeroTime, UpdatedAt |-> ZeroTime]>>
                 [] c = "code_points" ->
                      <<[ZeroCodePoint EXCEPT !.ID = <<0, "code_points", 1>>, !.CP = "005A"]>>
                 [] c = "blocks" ->
                      <<[Block("0100", "017F", "Latin Extended-A") EXCEPT !.ID = <<0, "blocks", 1>>]>>],
     indexes |-> [c \in Collections |-> {}]]

InitialStores == {EmptyStore, LegacyStore}

\* The errors the driver returns.
ErrDeadline == [text |-> MsgDeadline]
ErrUnauthorized == [text |-> MsgUnauthorized]
DriverErrors == {ErrDeadline}
NamespaceErrors == {[text |-> MsgNamespaceNotFound], [text |-> MsgNsNotFound]}

\* What the store writes for a model.UCD: Xmlns, Repertoire and Blocks carry bson:"-".
UCDDocument(u, id) ==
    [ID |-> id, Description |-> u.Description, Version |-> u.Version,
     CreatedAt |-> u.CreatedAt, UpdatedAt |-> u.UpdatedAt]

Strip(doc) == [doc EXCEPT !.ID = NilObjectID, !.CreatedAt = ZeroTime, !.UpdatedAt = ZeroTime]
StripAll(d) == [c \in Collections |-> [k \in 1..Len(d[c]) |-> Strip(d[c][k])]]

\* time.Now()
Now(tick) == <<run, tick>>
\* primitive.NewObjectID(), and the identity the driver gives a document that has none
NewObjectID(coll, k) == <<run, coll, k>>

\* What collection.Drop(ctx) leaves of the documents of the collection.
DropKeepsDocuments(docs) == docs
Drop(docs) == <<>>

\* What collection.DeleteMany(ctx, bson.M{}) leaves of the documents of the collection.
DeleteManyKeepsDocuments(docs) == docs
DeleteMany(docs) == <<>>

Op(stage, op, coll, arg, e) == [stage |-> stage, op |-> op, coll |-> coll, arg |-> arg, err |-> e]

(***************************************************************************)
(* main.go: one run, up to the store                                       *)
(***************************************************************************)
historyVars == <<prior, ucdCleared, lastRun>>

ExitIgnored(e) == err' = e /\ pc' = "CreateIndexes"
\* main prints the error and returns before the deferred Close is registered.
Exit(e) == err' = e /\ pc' = "exited"
ReturnRetries(e) == err' = err /\ pc' = pc
\* main prints the error and returns; the deferred mongoClient.Close() runs.
Return(e) == err' = e /\ pc' = "close"

\* main.go:40-44. Which artifact is served (network or cache) is the environment's choice.
fetchUcdXmlContentWithCache ==
    /\ pc = "fetch"
    /\ \/ /\ Exit(NewError("failed to fetch file"))
          /\ UNCHANGED content
       \/ \E c \in Artifacts(profile) :
             /\ content' = c
             /\ pc' = "parse"
             /\ UNCHANGED err
    /\ UNCHANGED <<profile, run, ucd, codePoints, blocks, documents, i, stats, clock,
                   storeVars, historyVars, trace, harnessVars>>

\* main.go:49-53
ParseUCDXML ==
    /\ pc = "parse"
    /\ IF content.kind = "malformed"
       THEN Exit(Errorf("failed to parse XML", NewError("strconv: invalid syntax"))) /\ UNCHANGED ucd
       ELSE ucd' = Decode(content) /\ pc' = "process" /\ UNCHANGED err
    /\ UNCHANGED <<profile, run, content, codePoints, blocks, documents, i, stats, clock,
                   storeVars, historyVars, trace, harnessVars>>

\* main.go:57-61
Process ==
    /\ pc = "process"
    /\ LET r == ProcessUCDForMongoDB(ucd)
       IN  /\ codePoints' = r.codePoints
           /\ blocks' = r.blocks
           /\ IF r.err # Nil THEN Exit(r.err) ELSE pc' = "connect" /\ UNCHANGED err
    /\ UNCHANGED <<profile, run, content, ucd, documents, i, stats, clock,
                   storeVars, historyVars, trace, harnessVars>>

\* main.go:75-80 with NewMongoClient, mongo.go:23-47
NewMongoClient ==
    /\ pc = "connect"
    /\ \/ \E e \in DriverErrors :
             /\ trace' = Append(trace, Op("NewMongoClient", "Connect", "", 0, e))
             /\ Exit(Errorf("failed to connect to MongoDB", e))
       \/ \E e \in DriverErrors :
             /\ trace' = trace \o <<Op("NewMongoClient", "Connect", "", 0, Nil),
                                    Op("NewMongoClient", "Ping", "", 0, e)>>
             /\ Exit(Errorf("failed to ping MongoDB", e))
       \/ /\ trace' = trace \o <<Op("NewMongoClient", "Connect", "", 0, Nil),
                                 Op("NewMongoClient", "Ping", "", 0, Nil)>>
          /\ pc' = "CreateIndexes"
          /\ UNCHANGED err
    /\ UNCHANGED <<profile, run, localVars, storeVars, historyVars, harnessVars>>

(***************************************************************************)
(* database/mongo.go: CreateIndexes                                        *)
(***************************************************************************)
DropAllOutcomes(coll) ==
    IF exists[coll]
    THEN {Nil} \cup DriverErrors \cup {ErrUnauthorized}
    ELSE NamespaceErrors \cup DriverErrors \cup {ErrUnauthorized}

\* coll.Indexes().DropAll(ctx) and the handling of its error, mongo.go:168-182
DropAll(coll, at, next, msg) ==
    /\ pc = at
    /\ \E e \in DropAllOutcomes(coll) :
          /\ trace' = Append(trace, Op("CreateIndexes", "DropAll", coll, 0, e))
          /\ indexes' = IF e = Nil THEN [indexes EXCEPT ![coll] = {}] ELSE indexes
          /\ IF e # Nil /\ ~isNamespaceNotFoundError(e)
             THEN Return(Errorf(msg, e))
             ELSE pc' = next /\ UNCHANGED err
    /\ UNCHANGED <<profile, run, localVars, exists, db, historyVars, harnessVars>>

\* coll.Indexes().CreateMany(ctx, models), mongo.go:212-233
CreateMany(coll, models, at, next, msg) ==
    /\ pc = at
    /\ \E e \in {Nil} \cup DriverErrors :
          /\ trace' = Append(trace, Op("CreateIndexes", "CreateMany", coll, 0, e))
          /\ IF e = Nil
             THEN /\ indexes' = [indexes EXCEPT ![coll] = @ \cup models]
                  /\ exists' = [exists EXCEPT ![coll] = TRUE]
                  /\ pc' = next
                  /\ UNCHANGED err
             ELSE /\ Return(Errorf(msg, e))
                  /\ UNCHANGED <<indexes, exists>>
    /\ UNCHANGED <<profile, run, localVars, db, historyVars, harnessVars>>

CreateIndexesDropCodePoints ==
    DropAll("code_points", "CreateIndexes", "CreateIndexes.dropBlocks",
            "failed to drop existing indexes")

CreateIndexesDropBlocks ==
    DropAll("blocks", "CreateIndexes.dropBlocks", "CreateIndexes.createCodePoints",
            "failed to drop existing block indexes")

CreateIndexesCodePoints ==
    CreateMany("code_points", codePointIndexes, "CreateIndexes.createCodePoints",
               "CreateIndexes.createBlocks", "failed to create code points indexes")

CreateIndexesBlocks ==
    CreateMany("blocks", blockIndexes, "CreateIndexes.createBlocks", "SaveUCD",
               "failed to create blocks indexes")

(***************************************************************************)
(* database/mongo.go: SaveUCD                                              *)
(***************************************************************************)
\* main.go:96 and mongo.go:59-71: the metadata document is built, then the collection dropped.
SaveUCDDrop ==
    /\ pc = "SaveUCD"
    /\ ucd' = [ucd EXCEPT !.Version = "16.0.0"]
    /\ documents' = <<[ZeroUCD EXCEPT !.Xmlns = ucd.Xmlns, !.Description = ucd.Description,
                                      !.Version = ucd'.Version,
                                      !.CreatedAt = Now(clock), !.UpdatedAt = Now(clock + 1)]>>
    /\ clock' = clock + 2
    /\ \E e \in {Nil} \cup DriverErrors :
          /\ trace' = Append(trace, Op("SaveUCD", "Drop", "ucd", 0, e))
          /\ IF e = Nil
             THEN /\ db' = [db EXCEPT !["ucd"] = Drop(@)]
                  /\ exists' = [exists EXCEPT !["ucd"] = FALSE]
                  /\ ucdCleared' = TRUE
                  /\ pc' = "SaveUCD.insert"
                  /\ UNCHANGED err
             ELSE /\ Return(Errorf("failed to clear existing UCD data", e))
                  /\ UNCHANGED <<db, exists, ucdCleared>>
    /\ UNCHANGED <<profile, run, content, codePoints, blocks, i, stats, indexes,
                   prior, lastRun, harnessVars>>

\* mongo.go:73-80
SaveUCDInsert ==
    /\ pc = "SaveUCD.insert"
    /\ \E e \in {Nil} \cup DriverErrors :
          /\ trace' = Append(trace, Op("SaveUCD", "InsertOne", "ucd", 0, e))
          /\ IF e = Nil
             THEN /\ db' = [db EXCEPT !["ucd"] = Append(@, UCDDocument(documents[1], NewObjectID("ucd", 1)))]
                  /\ exists' = [exists EXCEPT !["ucd"] = TRUE]
                  /\ pc' = "SaveCodePoints"
                  /\ UNCHANGED err
             ELSE /\ Return(Errorf("failed to save UCD", e))
                  /\ UNCHANGED <<db, exists>>
    /\ UNCHANGED <<profile, run, localVars, indexes, historyVars, harnessVars>>

(***************************************************************************)
(* database/mongo.go: SaveCodePoints                                       *)
(***************************************************************************)
StampOneIdentity(records, coll, now) ==
    [k \in 1..Len(records) |->
        [records[k] EXCEPT !.ID = NewObjectID(coll, 1), !.CreatedAt = now, !.UpdatedAt = now]]

\* mongo.go:97-104 and mongo.go:142-149
Stamp(records, coll, now) ==
    [k \in 1..Len(records) |->
        [records[k] EXCEPT !.ID = NewObjectID(coll, k), !.CreatedAt = now, !.UpdatedAt = now]]

\* What an InsertMany that fails may have written: a prefix of the batch.
PartialWrites(batch) ==
    {SubSeq(batch, 1, n) : n \in 0..(IF Len(batch) - 1 < MaxPartial THEN Len(batch) - 1 ELSE MaxPartial)}

\* mongo.go:84-104
SaveCodePointsDelete ==
    /\ pc = "SaveCodePoints"
    /\ IF Len(codePoints) = 0
       THEN /\ pc' = "SaveBlocks"
            /\ UNCHANGED <<err, trace, db, codePoints, documents, i, clock>>
       ELSE \E e \in {Nil} \cup DriverErrors :
               /\ trace' = Append(trace, Op("SaveCodePoints", "DeleteMany", "code_points", 0, e))
               /\ IF e = Nil
                  THEN /\ db' = [db EXCEPT !["code_points"] = DeleteMany(@)]
                       /\ codePoints' = Stamp(codePoints, "code_points", Now(clock))
                       /\ documents' = codePoints'
                       /\ clock' = clock + 1
                       /\ i' = 0
                       /\ pc' = "SaveCodePoints.insert"
                       /\ UNCHANGED err
                  ELSE /\ Return(Errorf("failed to clear existing code points", e))
                       /\ UNCHANGED <<db, codePoints, documents, i, clock>>
    /\ UNCHANGED <<profile, run, content, ucd, blocks, stats, exists, indexes,
                   historyVars, harnessVars>>

BatchEndOneShort(from, n) == (IF from + batchSize > n THEN n ELSE from + batchSize) - 1

\* mongo.go:110-113: end := i + batchSize, clamped to len(documents)
BatchEnd(from, n) == IF from + batchSize > n THEN n ELSE from + batchSize

\* mongo.go:109-122, one iteration of the batch loop
SaveCodePointsInsert ==
    /\ pc = "SaveCodePoints.insert"
    /\ LET end == BatchEnd(i, Len(documents))
           batch == SubSeq(documents, i + 1, end)
       IN  \E e \in {Nil} \cup DriverErrors :
              /\ trace' = Append(trace, Op("SaveCodePoints", "InsertMany", "code_points", i, e))
              /\ IF e = Nil
                 THEN /\ db' = [db EXCEPT !["code_points"] = @ \o batch]
                      /\ exists' = [exists EXCEPT !["code_points"] = TRUE]
                      /\ i' = i + batchSize
                      /\ pc' = IF i' < Len(documents) THEN "SaveCodePoints.insert" ELSE "SaveBlocks"
                      /\ UNCHANGED err
                 ELSE /\ \E written \in PartialWrites(batch) :
                            /\ db' = [db EXCEPT !["code_points"] = @ \o written]
                            /\ exists' = [exists EXCEPT !["code_points"] = @ \/ written # <<>>]
                      /\ Return(BatchErrorf(i, end, e))
                      /\ UNCHANGED i
    /\ UNCHANGED <<profile, run, content, ucd, codePoints, blocks, documents, stats, clock,
                   indexes, historyVars, harnessVars>>

(***************************************************************************)
(* database/mongo.go: SaveBlocks                                           *)
(***************************************************************************)
\* mongo.go:129-149
SaveBlocksDelete ==
    /\ pc = "SaveBlocks"
    /\ IF Len(blocks) = 0
       THEN /\ pc' = "GetStats"
            /\ UNCHANGED <<err, trace, db, blocks, documents, clock>>
       ELSE \E e \in {Nil} \cup DriverErrors :
               /\ trace' = Append(trace, Op("SaveBlocks", "DeleteMany", "blocks", 0, e))
               /\ IF e = Nil
                  THEN /\ db' = [db EXCEPT !["blocks"] = DeleteMany(@)]
                       /\ blocks' = Stamp(blocks, "blocks", Now(clock))
                       /\ documents' = blocks'
                       /\ clock' = clock + 1
                       /\ pc' = "SaveBlocks.insert"
                       /\ UNCHANGED err
                  ELSE /\ Return(Errorf("failed to clear existing blocks", e))
                       /\ UNCHANGED <<db, blocks, documents, clock>>
    /\ UNCHANGED <<profile, run, content, ucd, codePoints, i, stats, exists, indexes,
                   historyVars, harnessVars>>

\* mongo.go:151-158
SaveBlocksInsert ==
    /\ pc = "SaveBlocks.insert"
    /\ \E e \in {Nil} \cup DriverErrors :
          /\ trace' = Append(trace, Op("SaveBlocks", "InsertMany", "blocks", 0, e))
          /\ IF e = Nil
             THEN /\ db' = [db EXCEPT !["blocks"] = @ \o documents]
                  /\ exists' = [exists EXCEPT !["blocks"] = TRUE]
                  /\ pc' = "GetStats"
                  /\ UNCHANGED err
             ELSE /\ \E written \in PartialWrites(documents) :
                        /\ db' = [db EXCEPT !["blocks"] = @ \o written]
                        /\ exists' = [exists EXCEPT !["blocks"] = @ \/ written # <<>>]
                  /\ Return(Errorf("failed to insert blocks", e))
    /\ UNCHANGED <<profile, run, localVars, indexes, historyVars, harnessVars>>

(***************************************************************************)
(* database/mongo.go: GetStats, and main.go: analyzeCharacterTypes         *)
(***************************************************************************)
\* The read-only operations a handler issues in order, the n-th failing with e (n = 0: none fails).
Reads(stage, ops, n, e) ==
    [k \in 1..(IF n = 0 THEN Len(ops) ELSE n) |->
        Op(stage, ops[k][1], ops[k][2], k, IF k = n THEN e ELSE Nil)]

\* $group by script with $sum 1
ScriptGroups(docs) ==
    {[Script |-> sc, Count |-> Cardinality({k \in 1..Len(docs) : docs[k].Script = sc})] :
        sc \in {docs[k].Script : k \in 1..Len(docs)}}

RECURSIVE SortLimit(_, _)
\* $sort count descending then $limit m: a group of the greatest count, then the rest.
SortLimit(groups, m) ==
    IF m = 0 \/ groups = {} THEN {<<>>}
    ELSE LET greatest == {g \in groups : \A h \in groups : g.Count >= h.Count}
         IN  UNION {{<<g>> \o t : t \in SortLimit(groups \ {g}, m - 1)} : g \in greatest}

TopScriptsUnlimited(docs) == SortLimit(ScriptGroups(docs), Cardinality(ScriptGroups(docs)))

\* $group, $sort count descending, $limit: every order the store may return (ties are unordered).
TopScripts(docs) == SortLimit(ScriptGroups(docs), TopLimit)

GetStatsReads ==
    <<<<"CountDocuments", "code_points", "failed to count code points">>,
      <<"CountDocuments", "blocks", "failed to count blocks">>,
      <<"CountDocuments", "ucd", "failed to count UCD documents">>,
      <<"Aggregate", "code_points", "failed to aggregate by script">>>>

\* mongo.go:274-321 and main.go:119-123
GetStats ==
    /\ pc = "GetStats"
    /\ \/ \E top \in TopScripts(db["code_points"]) :
             /\ trace' = trace \o Reads("GetStats", GetStatsReads, 0, Nil)
             /\ stats' = [CodePointCount |-> Len(db["code_points"]),
                          BlockCount |-> Len(db["blocks"]),
                          UCDCount |-> Len(db["ucd"]),
                          TopScripts |-> top]
             /\ pc' = "analyzeCharacterTypes"
             /\ UNCHANGED err
       \/ \E n \in 1..Len(GetStatsReads), e \in DriverErrors :
             /\ trace' = trace \o Reads("GetStats", GetStatsReads, n, e)
             /\ stats' = Nil
             /\ Return(Errorf(GetStatsReads[n][3], e))
    /\ UNCHANGED <<profile, run, content, ucd, codePoints, blocks, documents, i, clock,
                   storeVars, historyVars, harnessVars>>

analyzeReads ==
    <<<<"CountDocuments", "code_points", "error counting total">>,
      <<"CountDocuments", "code_points", "error counting with names">>,
      <<"CountDocuments", "code_points", "error counting deprecated">>,
      <<"CountDocuments", "code_points", "error counting noncharacter">>,
      <<"CountDocuments", "code_points", "error counting with CP">>>>

\* main.go:131-156 with analyzeCharacterTypes, main.go:307-355
analyzeCharacterTypes ==
    /\ pc = "analyzeCharacterTypes"
    /\ \/ /\ trace' = trace \o Reads("analyzeCharacterTypes", analyzeReads, 0, Nil)
          /\ Return(Nil)
       \/ \E n \in 1..Len(analyzeReads), e \in DriverErrors :
             /\ trace' = trace \o Reads("analyzeCharacterTypes", analyzeReads, n, e)
             /\ Return(Errorf(analyzeReads[n][3], e))
    /\ UNCHANGED <<profile, run, localVars, storeVars, historyVars, harnessVars>>

\* mongo.go:49-53, deferred at main.go:80; its error is dropped.
Close ==
    /\ pc = "close"
    /\ \E e \in {Nil} \cup DriverErrors :
          trace' = Append(trace, Op("Close", "Disconnect", "", 0, e))
    /\ pc' = "exited"
    /\ UNCHANGED <<profile, run, err, localVars, storeVars, historyVars, harnessVars>>

(***************************************************************************)
(* Runs                                                                    *)
(***************************************************************************)
Succeeded == pc = "exited" /\ err = Nil

\* The messages of main.go:41-44, 50-53 and mongo.go:33, 38: the run ends before any store write.
SourceOrConnectionErrors ==
    {"failed to fetch file", "failed to parse XML",
     "failed to connect to MongoDB", "failed to ping MongoDB"}

\* How the run ended: with no error, before the store was used, or on a store operation.
Failure ==
    IF err = Nil THEN "none"
    ELSE IF err.msg \in SourceOrConnectionErrors THEN "source or connection"
    ELSE "store operation"

\* The program is started again.
NextRun ==
    /\ pc = "exited"
    /\ run < RunsOf(profile)
    /\ run' = run + 1
    /\ pc' = "fetch"
    /\ err' = Nil
    /\ content' = Nil /\ ucd' = Nil
    /\ codePoints' = <<>> /\ blocks' = <<>> /\ documents' = <<>>
    /\ i' = 0 /\ stats' = Nil /\ clock' = 0
    /\ prior' = [exists |-> exists, db |-> db, indexes |-> indexes]
    /\ trace' = <<>>
    /\ lastRun' = [ok |-> Succeeded, content |-> content, final |-> StripAll(db),
                   failure |-> Failure]
    /\ UNCHANGED <<profile, storeVars, ucdCleared, harnessVars>>

InitRun(p) ==
    /\ profile = p
    /\ run = 1
    /\ pc = "fetch"
    /\ err = Nil
    /\ content = Nil /\ ucd = Nil
    /\ codePoints = <<>> /\ blocks = <<>> /\ documents = <<>>
    /\ i = 0 /\ stats = Nil /\ clock = 0
    /\ \E st \in InitialStores :
          /\ exists = st.exists /\ db = st.db /\ indexes = st.indexes
          /\ prior = st
    /\ trace = <<>>
    /\ ucdCleared = FALSE
    /\ lastRun = Nil
    /\ input = Nil /\ rec = Nil /\ result = Nil

Init == InitRun("small")

Step ==
    \/ fetchUcdXmlContentWithCache
    \/ ParseUCDXML
    \/ Process
    \/ NewMongoClient
    \/ CreateIndexesDropCodePoints
    \/ CreateIndexesDropBlocks
    \/ CreateIndexesCodePoints
    \/ CreateIndexesBlocks
    \/ SaveUCDDrop
    \/ SaveUCDInsert
    \/ SaveCodePointsDelete
    \/ SaveCodePointsInsert
    \/ SaveBlocksDelete
    \/ SaveBlocksInsert
    \/ GetStats
    \/ analyzeCharacterTypes
    \/ Close

Next == Step \/ NextRun

\* Sequential runs over the small sources.
Spec == Init /\ [][Next]_vars

InitBatch == InitRun("big")

\* One run over sources of one to three batches.
SpecBatch == InitBatch /\ [][Step]_vars

InitStats == InitRun("stats")

\* One run over a source of more scripts than the ranking lists.
SpecStats == InitStats /\ [][Step]_vars

(***************************************************************************)
(* The functions of model/parser.go applied to bounded inputs              *)
(***************************************************************************)
MaxLen == 2    \* records of the normal subsequence of an input under test

SeqsUpTo(S, n) == UNION {[1..m -> S] : m \in 0..n}

\* Every way of populating cp, first-cp and last-cp, with clean and with unnormalized properties.
IdentityRecords ==
    {[ZeroCodePoint EXCEPT !.CP = c, !.FirstCP = f, !.LastCP = l] :
        c \in {"", "0041"}, f \in {"", "0378"}, l \in {"", "0379"}}

Unnormalized(cp) ==
    [cp EXCEPT !.Name = <<" ", "A">>, !.Script = <<"L", " ">>, !.BidiMirroringGlyph = "#",
               !.SimpleUppercase = "0041", !.CaseFolding = "#",
               !.Deprecated = TRUE, !.Noncharacter = TRUE]

TestRecords == IdentityRecords \cup {Unnormalized(cp) : cp \in IdentityRecords}

TestRepertoires ==
    {[CodePoints |-> n, Reserved |-> r, Noncharacter |-> x, Surrogate |-> g] :
        n \in SeqsUpTo(TestRecords, MaxLen),
        r \in {<<>>, <<RangeReserved>>},
        x \in {<<>>, <<Unnormalized(RangeNonchar)>>},
        g \in {<<>>, <<RangeSurrogate>>}}

\* The ten properties NormalizeCodePoint clears of "#", and the four it trims.
MappingFields ==
    {"BidiMirroringGlyph", "DecompositionMapping", "SimpleUppercase", "SimpleLowercase",
     "SimpleTitlecase", "UppercaseMapping", "LowercaseMapping", "TitlecaseMapping",
     "SimpleCaseFolding", "CaseFolding"}
TrimmedFields == {"Name", "Name1", "Block", "Script"}

MappingValues == {"#", "0061"}
OddMappingValues == {"", "##", " #", "# "}
TextValues == {<<>>, <<"A">>, <<" ", " ">>, <<" ", "\t", "A", " ", "B", "\n", " ">>}

WithFields(cp, fields, values) ==
    [f \in DOMAIN cp |-> IF f \in fields THEN values[f] ELSE cp[f]]

\* Accepted records: every placement of "#" over the mapping properties, every padding of the
\* trimmed properties, and mapping values that only resemble "#".
NormalizeRecords ==
    LET base == [ZeroCodePoint EXCEPT !.CP = "0041"]
    IN  {WithFields(base, MappingFields, m) : m \in [MappingFields -> MappingValues]}
        \cup {WithFields(base, TrimmedFields, t) : t \in [TrimmedFields -> TextValues]}
        \cup {WithFields(base, MappingFields, [f \in MappingFields |-> v]) : v \in OddMappingValues}

TestUCD(r) == [ZeroUCD EXCEPT !.Repertoire = r, !.Blocks = [Blocks |-> <<Block("0000", "007F", "ASCII")>>]]

Returned(fn, out) == [fn |-> fn, out |-> out]

runVars == <<profile, run, pc, err, localVars, storeVars, historyVars, trace>>

InitProcess ==
    /\ profile = "pure" /\ run = 0 /\ pc = "pure" /\ err = Nil
    /\ content = Nil /\ ucd = Nil
    /\ codePoints = <<>> /\ blocks = <<>> /\ documents = <<>>
    /\ i = 0 /\ stats = Nil /\ clock = 0
    /\ exists = EmptyStore.exists /\ db = EmptyStore.db /\ indexes = EmptyStore.indexes
    /\ prior = EmptyStore /\ trace = <<>> /\ ucdCleared = FALSE /\ lastRun = Nil
    /\ \/ input \in {Nil} \cup TestRepertoires /\ rec = Nil
       \/ input = Nil /\ rec \in NormalizeRecords
    /\ result = Nil

Flattened == getCodePointsFromRepertoire(input)

ApplyValidateCodePoint ==
    /\ pc = "pure" /\ rec = Nil /\ result = Nil
    /\ \E k \in 1..Len(Flattened) :
          /\ rec' = Flattened[k]
          /\ result' = Returned("ValidateCodePoint", ValidateCodePoint(Flattened[k]))
    /\ UNCHANGED <<runVars, input>>

ApplyNormalizeCodePoint ==
    /\ pc = "pure" /\ rec = Nil /\ result = Nil
    /\ \E k \in 1..Len(Flattened) :
          /\ ValidateCodePoint(Flattened[k]) = Nil
          /\ rec' = Flattened[k]
          /\ result' = Returned("NormalizeCodePoint", NormalizeCodePoint(Flattened[k]))
    /\ UNCHANGED <<runVars, input>>

\* NormalizeCodePoint on a record given directly.
ApplyNormalizeRecord ==
    /\ pc = "pure" /\ rec # Nil /\ result = Nil
    /\ ValidateCodePoint(rec) = Nil
    /\ result' = Returned("NormalizeCodePoint", NormalizeCodePoint(rec))
    /\ UNCHANGED <<runVars, input, rec>>

ApplyExtractAllCodePoints ==
    /\ pc = "pure" /\ rec = Nil /\ result = Nil
    /\ result' = Returned("ExtractAllCodePoints", ExtractAllCodePoints(TestUCD(input)))
    /\ input' = AfterFlattening(input)
    /\ UNCHANGED <<runVars, rec>>

ApplyProcessUCDForMongoDB ==
    /\ pc = "pure" /\ rec = Nil /\ result = Nil
    /\ result' = Returned("ProcessUCDForMongoDB", ProcessUCDForMongoDB(TestUCD(input)))
    /\ input' = AfterFlattening(input)
    /\ UNCHANGED <<runVars, rec>>

NextProcess ==
    \/ ApplyValidateCodePoint
    \/ ApplyNormalizeCodePoint
    \/ ApplyNormalizeRecord
    \/ ApplyExtractAllCodePoints
    \/ ApplyProcessUCDForMongoDB

SpecProcess == InitProcess /\ [][NextProcess]_vars

InitSystem == Init \/ InitProcess

\* The runs over the small sources together with the functions on bounded inputs.
SpecSystem == InitSystem /\ [][Next \/ NextProcess]_vars

(***************************************************************************)
(* Properties                                                              *)
(***************************************************************************)
Failed(msg) == err # Nil /\ err.msg = msg

Generation(doc) == doc.ID[1]

Indices(seq, P(_)) == {k \in 1..Len(seq) : P(seq[k])}

\* C1: after a successful run every document of the metadata, code-points and blocks
\* collections was written by that run; no document of an earlier generation survives.
C1_OnlyThisRunsDocuments ==
    Succeeded => \A c \in Collections : \A k \in 1..Len(db[c]) : Generation(db[c][k]) = run

\* C2: a successful run that follows a successful run over the same source ends with the
\* three collections holding what they held after the first, identities and timestamps aside.
C2_SecondRunSameState ==
    (Succeeded /\ lastRun # Nil /\ lastRun.ok /\ lastRun.content = content)
        => StripAll(db) = lastRun.final

C2_Witness ==
    /\ Succeeded /\ lastRun # Nil /\ lastRun.ok /\ lastRun.content = content
    /\ content.kind = "mixed"
    /\ prior.db["code_points"] # db["code_points"]
    /\ \A k \in 1..Len(db["code_points"]) : Generation(db["code_points"][k]) = run

\* C3: the statistics of a run report as code-point count the number of records the run
\* accepted and inserted, and as block count the number of blocks of the source.
C3_StatsCountThisRun ==
    (pc \in {"analyzeCharacterTypes", "close", "exited"} /\ stats # Nil)
        => /\ stats.CodePointCount = Len(codePoints)
           /\ stats.BlockCount = Len(ExtractBlocks(ucd))

CodePointInserts == Indices(trace, LAMBDA o : o.stage = "SaveCodePoints" /\ o.op = "InsertMany")

\* C4: when the insert of a batch fails in SaveCodePoints, it is the last store operation of
\* the save stages, the error carries the range [i, end) of that batch, the documents of the
\* batches before it are all in the collection, and no document of the prior generation is.
C4_BatchFailure ==
    Failed("failed to insert code points batch") =>
        LET failing == {k \in CodePointInserts : trace[k].err # Nil}
            done == {k \in CodePointInserts : trace[k].err = Nil}
            n == Len(documents)
            from == batchSize * Cardinality(done)
        IN  /\ Cardinality(failing) = 1
            /\ \A k \in failing :
                  /\ trace[k].arg = from
                  /\ \A later \in (k + 1)..Len(trace) : trace[later].stage = "Close"
                  /\ \A d \in done : d < k
            /\ err.i = from
            /\ err.end = (IF from + batchSize > n THEN n ELSE from + batchSize)
            /\ err.i < err.end
            /\ Len(db["code_points"]) >= from
            /\ Len(db["code_points"]) < err.end
            /\ SubSeq(db["code_points"], 1, from) = SubSeq(documents, 1, from)
            /\ \A k \in 1..Len(db["code_points"]) : Generation(db["code_points"][k]) = run

C4_Witness ==
    /\ pc = "exited"
    /\ Failed("failed to insert code points batch")
    /\ err.i = 1000
    /\ Len(documents) > 2000
    /\ Len(db["code_points"]) = 1001
    /\ prior.db["code_points"] # <<>>

Ran(stage, op) == \E k \in 1..Len(trace) : trace[k].stage = stage /\ trace[k].op = op

\* C5: in SaveUCD a failed drop is followed by no insert and leaves the metadata collection
\* as it was; a failed insert after a successful drop leaves the metadata collection empty.
C5_SaveUCDFailures ==
    /\ Failed("failed to clear existing UCD data") =>
          ~Ran("SaveUCD", "InsertOne") /\ db["ucd"] = prior.db["ucd"]
    /\ Failed("failed to save UCD") => db["ucd"] = <<>>

C5_Witness ==
    /\ pc = "exited"
    /\ Failed("failed to save UCD")
    /\ prior.db["ucd"] # <<>>
    /\ db["ucd"] = <<>>

\* The position of a stage in main.go:75-131.
Rank(stage) ==
    CASE stage = "NewMongoClient" -> 1
      [] stage = "CreateIndexes" -> 2
      [] stage = "SaveUCD" -> 3
      [] stage = "SaveCodePoints" -> 4
      [] stage = "SaveBlocks" -> 5
      [] stage = "GetStats" -> 6
      [] stage = "analyzeCharacterTypes" -> 7
      [] stage = "Close" -> 8

\* The operation made its stage fail: it returned an error that is not a tolerated one.
FailsStage(o) == o.err # Nil /\ ~(o.op = "DropAll" /\ o.err \in NamespaceErrors)

\* C6: the store operations of a run follow the stage order (index rebuild, metadata, code
\* points, blocks, statistics); after an operation that fails its stage nothing but the
\* disconnect is executed; and no operation is executed twice.
C6_StageOrderNoRetry ==
    \A a, b \in 1..Len(trace) :
        a < b =>
            /\ Rank(trace[a].stage) <= Rank(trace[b].stage)
            /\ FailsStage(trace[a]) => trace[b].stage = "Close"
            /\ <<trace[a].stage, trace[a].op, trace[a].coll, trace[a].arg>>
                   # <<trace[b].stage, trace[b].op, trace[b].coll, trace[b].arg>>

C6_Witness ==
    /\ pc = "exited"
    /\ Failed("failed to clear existing code points")
    /\ Ran("CreateIndexes", "CreateMany")
    /\ Ran("SaveUCD", "InsertOne")
    /\ trace[Len(trace)].stage = "Close"
    /\ ~Ran("SaveBlocks", "DeleteMany")

\* C7: a run that fails to fetch or decode the source, or to connect to or ping the store,
\* executes no mutating store operation and leaves the store as it found it.
C7_NoMutationBeforeConnect ==
    (err # Nil /\ err.msg \in SourceOrConnectionErrors) =>
        /\ \A k \in 1..Len(trace) : trace[k].op \in {"Connect", "Ping"}
        /\ db = prior.db /\ exists = prior.exists /\ indexes = prior.indexes

C7_Witness ==
    /\ pc = "exited"
    /\ Failed("failed to ping MongoDB")
    /\ run > 1
    /\ db["code_points"] # <<>>
    /\ Len(trace) = 2

\* C8: once SaveUCD has dropped the metadata collection it never holds more than one
\* document, over any number of runs, and it holds exactly one after SaveUCD succeeds.
C8_OneMetadataDocument ==
    /\ ucdCleared => Len(db["ucd"]) <= 1
    /\ (\E k \in 1..Len(trace) : trace[k].op = "InsertOne" /\ trace[k].err = Nil)
          => Len(db["ucd"]) = 1

C8_Witness ==
    /\ run = 2
    /\ Succeeded
    /\ Len(prior.db["ucd"]) = 1
    /\ Len(db["ucd"]) = 1
    /\ db["ucd"] # prior.db["ucd"]

Called(fn) == result # Nil /\ result.fn = fn

\* C9: ValidateCodePoint rejects with "missing identity" exactly the records with neither cp
\* nor first-cp, rejects with "incomplete range" exactly the others that have first-cp and no
\* last-cp, and accepts the rest; so a record with no range is accepted iff it has cp, and a
\* record with first-cp and no last-cp is rejected as an incomplete range.
C9_ValidateCodePoint ==
    Called("ValidateCodePoint") =>
        LET out == result.out
            noIdentity == rec.CP = "" /\ rec.FirstCP = ""
            openRange == rec.FirstCP # "" /\ rec.LastCP = ""
        IN  /\ out \in {Nil, ErrMissingIdentity, ErrIncompleteRange}
            /\ out = ErrMissingIdentity <=> noIdentity
            /\ out = ErrIncompleteRange <=> (~noIdentity /\ openRange)
            /\ (rec.FirstCP = "" /\ rec.LastCP = "") => (out = Nil <=> rec.CP # "")
            /\ openRange => out = ErrIncompleteRange

C9_Witness ==
    /\ Called("ValidateCodePoint")
    /\ rec.CP # "" /\ rec.FirstCP # "" /\ rec.LastCP = ""
    /\ result.out = ErrIncompleteRange

\* Exactly one of {cp} and {first-cp, last-cp} is populated, and first-cp comes with last-cp.
IdentityInvariant(cp) ==
    /\ (cp.CP # "") # (cp.FirstCP # "" \/ cp.LastCP # "")
    /\ cp.FirstCP # "" => cp.LastCP # ""

\* C10: every record validation accepts, and every code-point document the run persists,
\* has exactly one of the single code value and the range, a range start with its range end.
C10_IdentityInvariant ==
    /\ \A k \in 1..Len(codePoints) : IdentityInvariant(codePoints[k])
    /\ \A k \in 1..Len(db["code_points"]) : IdentityInvariant(db["code_points"][k])

\* The record has a single code value or a range start, and no range start without a range end.
Accepted(cp) == (cp.CP # "" \/ cp.FirstCP # "") /\ (cp.FirstCP = "" \/ cp.LastCP # "")

AcceptedPositions(all) == {k \in 1..Len(all) : Accepted(all[k])}

\* out holds, for each accepted record of all and in the order of all, its normalized form,
\* and nothing else.
SkipAndContinue(all, out) ==
    LET acc == AcceptedPositions(all)
    IN  /\ Len(out) = Cardinality(acc)
        /\ \A k \in acc : out[Cardinality({j \in acc : j <= k})] = NormalizeCodePoint(all[k])

\* C11: ProcessUCDForMongoDB returns no error and exactly the accepted records of the
\* flattened input, in order and normalized, whatever records it rejects before or between
\* them; the documents a run persists and the code-point count it reports when it wrote
\* code points are those of the accepted records only.
C11_SkipAndContinue ==
    /\ Called("ProcessUCDForMongoDB") =>
          /\ result.out.err = Nil
          /\ SkipAndContinue(getCodePointsFromRepertoire(input), result.out.codePoints)
    /\ (ucd # Nil /\ pc # "process") =>
          LET all == ExtractAllCodePoints(ucd)
              docs == db["code_points"]
          IN  /\ ~(err # Nil /\ err \in {ErrMissingIdentity, ErrIncompleteRange})
              /\ SkipAndContinue(all, [k \in 1..Len(codePoints) |-> Strip(codePoints[k])])
              /\ \A k \in 1..Len(docs) :
                    Generation(docs[k]) = run =>
                        k <= Len(codePoints) /\ Strip(docs[k]) = Strip(codePoints[k])
              /\ (stats # Nil /\ Len(codePoints) > 0) =>
                    stats.CodePointCount = Cardinality(AcceptedPositions(all))

C11_Witness ==
    /\ Succeeded /\ ucd # Nil /\ stats # Nil
    /\ LET all == ExtractAllCodePoints(ucd)
       IN  \E j, k \in 1..Len(all) :
              /\ j < k /\ ~Accepted(all[j]) /\ Accepted(all[k])
              /\ \E d \in 1..Len(db["code_points"]) :
                    Strip(db["code_points"][d]) = NormalizeCodePoint(all[k])
    /\ Len(db["code_points"]) = 4
    /\ stats.CodePointCount = 4

\* C12: ExtractAllCodePoints returns the normal, reserved, noncharacter and surrogate records
\* of the repertoire in that order, each subsequence in its own order and nothing else; the
\* normal and surrogate records are equal to the source records in every field, the reserved
\* and noncharacter ones in every field but their flag; the repertoire is left as it was.
C12_Flattening ==
    [][(result = Nil /\ result' # Nil /\ result'.fn = "ExtractAllCodePoints") =>
          LET out == result'.out
          IN  /\ input' = input
              /\ IF input = Nil THEN out = <<>>
                 ELSE LET n == Len(input.CodePoints)
                          r == Len(input.Reserved)
                          x == Len(input.Noncharacter)
                          g == Len(input.Surrogate)
                      IN  /\ Len(out) = n + r + x + g
                          /\ \A k \in 1..n : out[k] = input.CodePoints[k]
                          /\ \A k \in 1..r :
                                [out[n + k] EXCEPT !.Deprecated = input.Reserved[k].Deprecated]
                                    = input.Reserved[k]
                          /\ \A k \in 1..x :
                                [out[n + r + k] EXCEPT !.Noncharacter = input.Noncharacter[k].Noncharacter]
                                    = input.Noncharacter[k]
                          /\ \A k \in 1..g : out[n + r + x + k] = input.Surrogate[k]]_vars

C12_Witness ==
    /\ Called("ExtractAllCodePoints")
    /\ input # Nil
    /\ Len(input.CodePoints) = 2 /\ input.CodePoints[1] # input.CodePoints[2]
    /\ Len(input.Reserved) = 1 /\ Len(input.Noncharacter) = 1 /\ Len(input.Surrogate) = 1
    /\ Len(result.out) = 5
    /\ result.out[5] = input.Surrogate[1]

\* The subsequence of the repertoire that produced position k of its flattening.
Origin(repertoire, k) ==
    LET n == Len(repertoire.CodePoints)
        r == Len(repertoire.Reserved)
        x == Len(repertoire.Noncharacter)
    IN  IF k <= n THEN "normal"
        ELSE IF k <= n + r THEN "reserved"
        ELSE IF k <= n + r + x THEN "noncharacter"
        ELSE "surrogate"

\* What a flattened record carries of its category: the two flags flattening writes.
CategoryMark(cp) == <<cp.Deprecated, cp.Noncharacter>>

\* C13: every flattened record carries a category fixed by the subsequence it came from: a
\* reserved-origin record is marked reserved and a noncharacter-origin record noncharacter
\* whatever its input flags were, and two records of different origin never carry the same
\* category.
C13_CategoryByOrigin ==
    (Called("ExtractAllCodePoints") /\ input # Nil) =>
        LET out == result.out
        IN  /\ \A k \in 1..Len(out) :
                  /\ Origin(input, k) = "reserved" => out[k].Deprecated
                  /\ Origin(input, k) = "noncharacter" => out[k].Noncharacter
            /\ \A j, k \in 1..Len(out) :
                  Origin(input, j) # Origin(input, k) => CategoryMark(out[j]) # CategoryMark(out[k])

\* C14: normalizing an accepted record that is already normalized changes nothing:
\* NormalizeCodePoint(NormalizeCodePoint(R)) = NormalizeCodePoint(R).
C14_NormalizeIdempotent ==
    Called("NormalizeCodePoint") => NormalizeCodePoint(result.out) = result.out

C14_Witness ==
    /\ Called("NormalizeCodePoint")
    /\ Accepted(rec)
    /\ Len(rec.Name) > 2 /\ rec.Name[1] \in WhiteSpace /\ rec.Name[2] \in WhiteSpace
    /\ rec.Script # <<>> /\ result.out.Script = <<>>
    /\ result.out.Name # rec.Name
    /\ result.out.Name # <<>>

\* C15: NormalizeCodePoint leaves in each of the ten mapping properties the empty string
\* where the record had "#" and the record's value otherwise, each property on its own; no
\* code-point document a run persists holds "#" in a mapping property.
C15_HashBecomesEmpty ==
    /\ Called("NormalizeCodePoint") =>
          \A f \in MappingFields : result.out[f] = (IF rec[f] = "#" THEN "" ELSE rec[f])
    /\ \A k \in 1..Len(db["code_points"]) :
          Generation(db["code_points"][k]) >= 1 =>
              \A f \in MappingFields : db["code_points"][k][f] # "#"

C15_Witness ==
    /\ Called("NormalizeCodePoint")
    /\ rec.BidiMirroringGlyph = "#" /\ result.out.BidiMirroringGlyph = ""
    /\ rec.SimpleCaseFolding = "#" /\ result.out.SimpleCaseFolding = ""
    /\ rec.CaseFolding = "0061" /\ result.out.CaseFolding = "0061"
    /\ rec.TitlecaseMapping = "0061" /\ result.out.TitlecaseMapping = "0061"

\* The message CreateIndexes wraps a failed DropAll of the collection in.
DropMessage(coll) ==
    IF coll = "code_points" THEN "failed to drop existing indexes"
    ELSE "failed to drop existing block indexes"

\* C16: in CreateIndexes a DropAll that reports the namespace absent does not fail the
\* operation: the next operation of CreateIndexes follows, and when CreateIndexes completes
\* both collections have the fixed index set; a DropAll that fails otherwise fails
\* CreateIndexes with no CreateMany executed and no index added.
C16_DropAllTolerance ==
    /\ \A k \in 1..Len(trace) :
          (trace[k].op = "DropAll" /\ trace[k].err # Nil) =>
              IF trace[k].err \in NamespaceErrors
              THEN /\ ~Failed(DropMessage(trace[k].coll))
                   /\ k < Len(trace) => trace[k + 1].stage = "CreateIndexes"
                   /\ k = Len(trace) =>
                         pc \in {"CreateIndexes.dropBlocks", "CreateIndexes.createCodePoints"}
              ELSE /\ Failed(DropMessage(trace[k].coll))
                   /\ ~Ran("CreateIndexes", "CreateMany")
                   /\ \A later \in (k + 1)..Len(trace) : trace[later].stage = "Close"
                   /\ \A c \in Collections : indexes[c] \subseteq prior.indexes[c]
    /\ (\E k \in 1..Len(trace) :
            trace[k].op = "CreateMany" /\ trace[k].coll = "blocks" /\ trace[k].err = Nil)
          => indexes["code_points"] = codePointIndexes /\ indexes["blocks"] = blockIndexes

C16_Witness ==
    /\ pc = "SaveUCD"
    /\ Len(trace) = 6
    /\ trace[3].op = "DropAll" /\ trace[3].err = [text |-> MsgNsNotFound]
    /\ trace[4].op = "DropAll" /\ trace[4].err = [text |-> MsgNamespaceNotFound]
    /\ trace[5].op = "CreateMany" /\ trace[6].op = "CreateMany"
    /\ indexes["code_points"] = codePointIndexes /\ indexes["blocks"] = blockIndexes

\* C17: a save is a clear and an insert issued as two store operations: between them the
\* store is in a state of its own where the collection is empty, whatever it held before the
\* run and although the run is about to write a non-empty generation to it.
C17_TransientlyEmpty ==
    /\ pc = "SaveUCD.insert" => db["ucd"] = <<>> /\ Len(documents) = 1
    /\ (pc = "SaveCodePoints.insert" /\ i = 0) => db["code_points"] = <<>> /\ Len(documents) > 0
    /\ pc = "SaveBlocks.insert" => db["blocks"] = <<>> /\ Len(documents) > 0

C17_Witness ==
    /\ pc = "SaveCodePoints.insert" /\ i = 0
    /\ prior.db["code_points"] # <<>>
    /\ db["code_points"] = <<>>
    /\ Len(documents) > 0
    /\ prior.db["ucd"] # <<>>
    /\ \E k \in 1..Len(trace) : trace[k].op = "Drop" /\ trace[k].err = Nil
    /\ trace[Len(trace)].op = "DeleteMany" /\ trace[Len(trace)].err = Nil

\* C18: GetStats leaves every collection as it was and returns the number of documents of
\* code_points, blocks and ucd with at most 10 script entries (10, or all the scripts when
\* there are fewer): each entry counts the code-point documents of its script, the entries
\* are of distinct scripts in non-increasing count order, and no script left out has a
\* greater count than a listed one.
C18_GetStats ==
    [][pc = "GetStats" =>
          /\ db' = db /\ exists' = exists /\ indexes' = indexes
          /\ stats' # Nil =>
                LET docs == db["code_points"]
                    top == stats'.TopScripts
                    scripts == {docs[k].Script : k \in 1..Len(docs)}
                    CountOf(sc) == Cardinality({k \in 1..Len(docs) : docs[k].Script = sc})
                    listed == {top[a].Script : a \in 1..Len(top)}
                IN  /\ stats'.CodePointCount = Len(docs)
                    /\ stats'.BlockCount = Len(db["blocks"])
                    /\ stats'.UCDCount = Len(db["ucd"])
                    /\ Len(top) <= 10
                    /\ Len(top) = 10 \/ listed = scripts
                    /\ \A a \in 1..Len(top) :
                          top[a].Script \in scripts /\ top[a].Count = CountOf(top[a].Script)
                    /\ \A a, b \in 1..Len(top) :
                          a < b => top[a].Count >= top[b].Count /\ top[a].Script # top[b].Script
                    /\ \A sc \in scripts \ listed :
                          \A a \in 1..Len(top) : top[a].Count >= CountOf(sc)]_vars

C18_Witness ==
    /\ pc = "analyzeCharacterTypes"
    /\ stats # Nil
    /\ Len(stats.TopScripts) = 10
    /\ Cardinality({db["code_points"][k].Script : k \in 1..Len(db["code_points"])}) = 12
    /\ stats.CodePointCount = 50
    /\ stats.TopScripts[7].Count = stats.TopScripts[8].Count
    /\ stats.TopScripts[10].Count = 1
    /\ stats.TopScripts[10].Script = <<"S", "l">>

\* What a successful run over the source leaves in a destination that was empty: one
\* metadata document and the accepted records and the blocks of the source.
FreshFinal(c) ==
    LET u == [Decode(c) EXCEPT !.Version = "16.0.0"]
        r == ProcessUCDForMongoDB(u)
    IN  [coll \in Collections |->
            CASE coll = "ucd" -> <<Strip(UCDDocument(u, NilObjectID))>>
              [] coll = "code_points" -> [k \in 1..Len(r.codePoints) |-> Strip(r.codePoints[k])]
              [] coll = "blocks" -> [k \in 1..Len(r.blocks) |-> Strip(r.blocks[k])]]

\* C19: a successful run that follows a run over the same source that failed on a store
\* operation ends with the three collections holding what a successful run over that source
\* leaves in an empty destination, identities and timestamps aside.
C19_RerunRecovers ==
    (Succeeded /\ lastRun # Nil /\ lastRun.failure = "store operation"
               /\ lastRun.content = content)
        => StripAll(db) = FreshFinal(content)

\* The identities of the documents of a store.
Identities(d) == UNION {{d[c][k].ID : k \in 1..Len(d[c])} : c \in Collections}

\* C20: when SaveCodePoints returns without error, then for an empty input it has executed
\* no store operation and code_points is as the run found it; for a non-empty input
\* code_points holds exactly the input records, one document each and in their order, every
\* document with an identity that no other document of the store has or had before the run,
\* and with its created and updated timestamps set.
C20_SaveCodePoints ==
    pc = "SaveBlocks" =>
        LET records == ProcessUCDForMongoDB(ucd).codePoints
            docs == db["code_points"]
            ids == {docs[k].ID : k \in 1..Len(docs)}
        IN  IF Len(records) = 0
            THEN /\ \A k \in 1..Len(trace) : trace[k].stage # "SaveCodePoints"
                 /\ docs = prior.db["code_points"]
            ELSE /\ Len(docs) = Len(records)
                 /\ \A k \in 1..Len(docs) :
                       /\ Strip(docs[k]) = records[k]
                       /\ docs[k].CreatedAt # ZeroTime /\ docs[k].UpdatedAt # ZeroTime
                 /\ Cardinality(ids) = Len(docs)
                 /\ NilObjectID \notin ids
                 /\ ids \cap Identities(prior.db) = {}
                 /\ ids \cap Identities([db EXCEPT !["code_points"] = <<>>]) = {}

C20_Witness ==
    /\ pc = "SaveBlocks"
    /\ prior.db["code_points"] # <<>>
    /\ Len(db["code_points"]) = 1001
    /\ db["code_points"][1].ID # db["code_points"][1001].ID
    /\ Generation(db["code_points"][1001]) = run

\* C21: each insert of SaveCodePoints sends the records of positions [i, end) where i is a
\* multiple of 1000 below n, all positions below i are in the collection in input order, and
\* end is i + 1000 or n if that is less: the batch has 1000 records unless it is the last,
\* which has 1 to 1000. An insert that succeeds leaves positions below end in the
\* collection and is followed by the batch at end, or by the return when end = n; one that
\* fails reports [i, end) and leaves every position below i in the collection.
C21_Batches ==
    [][pc = "SaveCodePoints.insert" =>
          LET n == Len(documents)
              end == IF i + 1000 > n THEN n ELSE i + 1000
              sent == trace'[Len(trace')]
              inserts == {k \in 1..Len(trace') : trace'[k].op = "InsertMany"
                                                    /\ trace'[k].coll = "code_points"}
          IN  /\ n > 0 /\ i < n /\ i % 1000 = 0
              /\ end - i >= 1 /\ end - i <= 1000
              /\ end < n => end - i = 1000
              /\ db["code_points"] = SubSeq(documents, 1, i)
              /\ Len(trace') = Len(trace) + 1
              /\ sent.op = "InsertMany" /\ sent.arg = i
              /\ \A k \in inserts : trace'[k].arg = 1000 * (Cardinality({j \in inserts : j < k}))
              /\ IF sent.err = Nil
                 THEN /\ db'["code_points"] = SubSeq(documents, 1, end)
                      /\ i' = i + 1000
                      /\ pc' = (IF end = n THEN "SaveBlocks" ELSE "SaveCodePoints.insert")
                      /\ err' = Nil
                 ELSE /\ err'.i = i /\ err'.end = end
                      /\ pc' = "close"
                      /\ SubSeq(db'["code_points"], 1, i) = SubSeq(documents, 1, i)
                      /\ Len(db'["code_points"]) < end]_vars

C21_Witness ==
    /\ pc = "SaveBlocks"
    /\ Len(documents) = 2001
    /\ db["code_points"] = documents
    /\ LET inserts == Indices(trace, LAMBDA o : o.op = "InsertMany" /\ o.coll = "code_points")
       IN  /\ Cardinality(inserts) = 3
           /\ {trace[k].arg : k \in inserts} = {0, 1000, 2000}
           /\ \A k \in inserts : trace[k].err = Nil

\* The operations of kind op that the stage has executed, as positions of the trace.
OpsOf(stage, op) == Indices(trace, LAMBDA o : o.stage = stage /\ o.op = op)

\* C22: in SaveCodePoints and in SaveBlocks every insert comes after a delete that
\* succeeded; when the delete fails no insert is executed, the run fails with the clear
\* error and the collection holds what it held before the run; when the delete succeeded
\* and the one insert of SaveBlocks fails, blocks holds no document of the prior generation.
C22_DeleteBeforeInsert ==
    /\ \A stage \in {"SaveCodePoints", "SaveBlocks"} :
          /\ Cardinality(OpsOf(stage, "DeleteMany")) <= 1
          /\ \A k \in OpsOf(stage, "InsertMany") :
                \E j \in OpsOf(stage, "DeleteMany") : j < k /\ trace[j].err = Nil
          /\ \A j \in OpsOf(stage, "DeleteMany") :
                trace[j].err # Nil => OpsOf(stage, "InsertMany") = {} /\ err # Nil
    /\ Failed("failed to clear existing code points") =>
          /\ OpsOf("SaveCodePoints", "InsertMany") = {}
          /\ db["code_points"] = prior.db["code_points"]
    /\ Failed("failed to clear existing blocks") =>
          /\ OpsOf("SaveBlocks", "InsertMany") = {}
          /\ db["blocks"] = prior.db["blocks"]
    /\ Cardinality(OpsOf("SaveBlocks", "InsertMany")) <= 1
    /\ Failed("failed to insert blocks") =>
          /\ \A k \in 1..Len(db["blocks"]) : Generation(db["blocks"][k]) = run
          /\ prior.db["blocks"] # <<>> => db["blocks"] # prior.db["blocks"]
          /\ Len(db["blocks"]) < Len(documents)

C22_Witness ==
    /\ pc = "exited"
    /\ Failed("failed to insert blocks")
    /\ prior.db["blocks"] # <<>>
    /\ db["blocks"] = <<>>
    /\ \E j \in OpsOf("SaveBlocks", "DeleteMany") : trace[j].err = Nil
    /\ \E k \in OpsOf("SaveBlocks", "InsertMany") : trace[k].err # Nil

\* An index on the keys that is neither sparse nor unique.
Plain(keys) == [keys |-> keys, sparse |-> FALSE, unique |-> FALSE]

\* C23: once a run has rebuilt the indexes, and so after every successful run, code_points
\* has exactly the indexes on cp (sparse), name, block, general_category, script, age and
\* (first_cp, last_cp), and blocks exactly the unique index on name and the index on
\* (first_cp, last_cp); the saves that follow leave them in place.
C23_IndexSet ==
    (Succeeded \/ \E k \in 1..Len(trace) :
                     trace[k].op = "CreateMany" /\ trace[k].coll = "blocks" /\ trace[k].err = Nil)
        => /\ indexes["code_points"] =
                 {[keys |-> <<"cp">>, sparse |-> TRUE, unique |-> FALSE],
                  Plain(<<"name">>), Plain(<<"block">>), Plain(<<"general_category">>),
                  Plain(<<"script">>), Plain(<<"age">>), Plain(<<"first_cp", "last_cp">>)}
           /\ indexes["blocks"] =
                 {[keys |-> <<"name">>, sparse |-> FALSE, unique |-> TRUE],
                  Plain(<<"first_cp", "last_cp">>)}
           /\ exists["code_points"] /\ exists["blocks"]

C23_Witness ==
    /\ Succeeded /\ run = 2
    /\ prior.indexes["code_points"] # {} /\ prior.indexes["blocks"] # {}
    /\ Cardinality(indexes["code_points"]) = 7 /\ Cardinality(indexes["blocks"]) = 2
    /\ \E k \in 1..Len(trace) : trace[k].op = "DropAll" /\ trace[k].err = Nil
    /\ \E k \in 1..Len(trace) :
          trace[k].op = "DeleteMany" /\ trace[k].coll = "code_points" /\ trace[k].err = Nil
    /\ \E k \in 1..Len(trace) :
          trace[k].op = "DeleteMany" /\ trace[k].coll = "blocks" /\ trace[k].err = Nil

====
